---- MODULE Spec2Model ----
(***************************************************************************)
(* Goofguard (src/main.py): the configuration store with its relational   *)
(* and flat-file backends, the captcha verification handlers, the         *)
(* leveling accumulator and the raid-protection configuration.            *)
(*                                                                         *)
(* Each subsystem has its own specification over its own variables; the   *)
(* variables of the other subsystems stay at their initial value.         *)
(***************************************************************************)
EXTENDS Integers, Sequences, FiniteSets, TLC

VARIABLES
    \* ---- config store (main.py 308-450)
    DATABASE_URL,       \* the environment variable: "unset", "blank" or "url"
    probe_ok,           \* whether the boot-time SELECT 1 succeeded (environment)
    USE_DATABASE,       \* module global, line 310 / 325
    engine,             \* module global, line 311 / 317 / 326: "None" or "engine"
    bot_config,         \* the bot_config table: config_type -> sequence of data documents
    files,              \* the flat files: config_type -> file content
    store_op,           \* the last store call: its arguments, fault and result
    \* ---- verification (main.py 331-332, 751-771, 905-990, 4600-4640, 5757-5881)
    verification_config,    \* module global: str(guild id) -> settings
    pending_verifications,  \* module global: user id -> pending record
    verify_tasks,           \* per user, the verify_slash handlers suspended at `await member.add_roles'
    verify_result,          \* per user, the response of the last finished /verify
    verify_hist,            \* per user, the wrong attempts made since the last issue
    \* ---- wall clock
    now,                \* int(time.time())
    ticks,              \* how many times the clock has advanced
    \* ---- leveling (main.py 305-306, 527-612, 3657-3685)
    user_levels,        \* module global: str(guild id) -> str(user id) -> record
    guild_level_config, \* module global: str(guild id) -> {"enabled": bool}
    level_files,        \* user_levels.json and level_config.json
    level_sends,        \* on_message handlers suspended at the send of a level-up message
    level_event,        \* the last add_xp call of on_message: its pair, gain and result
    gained_at,          \* per pair, the time its xp last grew (0: never)
    \* ---- calculate_level on its own
    calc_call,          \* a call of calculate_level: argument and result
    \* ---- raid protection (main.py 336, 4498-4592)
    raid_protection_config, \* module global: str(guild id) -> settings
    join_log,           \* per guild, the times of the recent member joins
    \* ---- the process over its runs (main.py 452-525, 630-645, 698-708, 5684-5697)
    carried,            \* per user: had a pending record at the last graceful shutdown
                        \* and nothing about the user has happened since the restart
    captcha_event,      \* the last /captcha command: moderator, user, guild, difficulty
    \* ---- leveling: messages without award and the leaderboard (main.py 3657-3665, 6258-6306)
    level_ignored,      \* flips at every message on_message awards nothing for
    board_shown,        \* the last /leaderboard of the process: guild and user keys listed
    board_call,         \* a call of the leaderboard's sort on its own: items and result
    \* ---- the process and its backups (main.py 486-525, 698-708)
    process,            \* whether the process runs, got a signal or has exited, and what
                        \* its startup could not read
    backups,            \* the config_backups directory: timestamp -> name -> file content
    \* ---- the role grants of /verify (main.py 5772-5801)
    role_grants,        \* per user, the add_roles calls that returned since the last issue
    issued_in_flight    \* per user: the pending record was issued while a /verify with the
                        \* right code was suspended, and no /verify has read it since

storeVars == <<DATABASE_URL, probe_ok, USE_DATABASE, engine, bot_config, files, store_op>>
verifyVars == <<verification_config, pending_verifications, verify_tasks, verify_result,
                verify_hist>>

clockVars == <<now, ticks>>
levelVars == <<user_levels, guild_level_config, level_files, level_sends, level_event,
               gained_at>>
calcVars == <<calc_call>>
raidVars == <<raid_protection_config, join_log>>

lifeVars == <<carried, captcha_event>>

boardVars == <<level_ignored, board_shown, board_call>>

runVars == <<process, backups>>

raceVars == <<role_grants, issued_in_flight>>

vars == <<storeVars, verifyVars, clockVars, levelVars, calcVars, raidVars, lifeVars,
          boardVars, runVars, raceVars>>

(***************************************************************************)
(* Python dictionaries and their JSON documents.                           *)
(*                                                                         *)
(* A dictionary key is an int or a str; json.dumps writes every key as a  *)
(* string, json.loads returns string keys.  The int key 7 and the str key *)
(* "7" are different keys of a dict and the same key of a JSON object.    *)
(***************************************************************************)
MaxStoreKey == 2

IntKey(n) == [t |-> "int", n |-> n]
StrKey(n) == [t |-> "str", n |-> n]
str(k) == [t |-> "str", n |-> k.n]

\* The value of a dict entry (a settings record, a pending record): one sample value,
\* the store never looks inside it.
StoreVals == {"v1"}
EmptyDict == [k \in {} |-> 0]

\* All dicts over the key set ks with values in vs.
DictsOver(ks, vs) == UNION {[d -> vs] : d \in SUBSET ks}

\* json.dumps followed by what a JSON object can hold: keys become strings; when the
\* int key n and the str key "n" are both present the object holds the member
\* written last.  A str key of these dicts always comes from an earlier json.load
\* (a reloaded map), so it was inserted before any int key and the int entry wins.
json_dumps(p) ==
    [k \in {str(j) : j \in DOMAIN p} |->
        IF IntKey(k.n) \in DOMAIN p THEN p[IntKey(k.n)] ELSE p[k]]

\* json.load / a JSONB column read back: the document as a dict with str keys.
json_loads(doc) == doc

(***************************************************************************)
(* Backend selection at import time (lines 309-328).                       *)
(***************************************************************************)
EnvUrls == {"unset", "blank", "url"}

\* line 310, then lines 314-326: the except branch of the probe clears the flag.
BootUseDatabaseNoFallback(url, ok) == url = "url"
BootUseDatabase(url, ok) == url = "url" /\ ok

\* lines 311, 317, 326.
BootEngine(url, ok) == IF url = "url" /\ ok THEN "engine" ELSE "None"

(***************************************************************************)
(* save_config / load_config (lines 380-450).                              *)
(***************************************************************************)
\* CONFIG_FILES, lines 339-346 (two of the six domains, which are treated alike).
CONFIG_FILES == {"verification", "pending_verifications"}
\* With a config_type that is no key of CONFIG_FILES ("welcome" has its own file
\* functions and never reaches save_config in the program).
StoreDomains == CONFIG_FILES \cup {"welcome"}

Absent == [kind |-> "absent", doc |-> EmptyDict]
Partial == [kind |-> "partial", doc |-> EmptyDict]
JsonFile(doc) == [kind |-> "json", doc |-> doc]

\* What can go wrong in a call: nothing; any exception inside the
\* `with engine.connect()` block (the connection closes without commit: rollback);
\* open() failing (the file is untouched); the write failing after open(.., 'w')
\* truncated the file (a truncated or half-written file is left); a read failing.
SaveFaults == IF USE_DATABASE /\ engine # "None"
              THEN {"none", "db_error"}
              ELSE {"none", "open_error", "write_error"}
LoadFaults == IF USE_DATABASE /\ engine # "None"
              THEN {"none", "db_error"}
              ELSE {"none", "read_error"}

\* The two statements of the transaction of save_config, lines 391-398, on the rows
\* of the bot_config table: DELETE ... WHERE config_type = :config_type, and INSERT.
\* They run in one transaction (line 389) that commits at line 399; an exception
\* before the commit closes the connection and rolls both back.
db_delete_nothing(table, config_type) == table
db_delete(table, config_type) == [table EXCEPT ![config_type] = <<>>]
db_insert_every_type(table, config_type, doc) == [d \in DOMAIN table |-> Append(table[d], doc)]
db_insert(table, config_type, doc) == [table EXCEPT ![config_type] = Append(@, doc)]

\* The body of save_config's try block from line 387 on, applied to a given table and
\* file system: the new table and files, whether an exception left the block, and
\* the value returned otherwise.
save_config_to(table, fs, config_type, data, fault) ==
    IF USE_DATABASE /\ engine # "None"
    THEN IF fault = "db_error"
         THEN [table |-> table, fs |-> fs, exc |-> TRUE, ret |-> "False"]
         ELSE [table |-> db_insert(db_delete(table, config_type), config_type, json_dumps(data)),
               fs |-> fs, exc |-> FALSE, ret |-> "True"]
    ELSE IF config_type \notin CONFIG_FILES
         THEN [table |-> table, fs |-> fs, exc |-> FALSE, ret |-> "False"]
         ELSE IF fault = "open_error"
              THEN [table |-> table, fs |-> fs, exc |-> TRUE, ret |-> "False"]
              ELSE IF fault = "write_error"
                   THEN [table |-> table,
                         fs |-> [fs EXCEPT ![config_type] = Partial],
                         exc |-> TRUE, ret |-> "False"]
                   ELSE [table |-> table,
                         fs |-> [fs EXCEPT ![config_type] = JsonFile(json_dumps(data))],
                         exc |-> FALSE, ret |-> "True"]

\* The try block of save_config on the store as it is, lines 383-410.
save_config_body(config_type, data, fault) ==
    save_config_to(bot_config, files, config_type, data, fault)

\* save_config with its except clause, lines 411-413: nothing is raised, False is returned.
save_config(config_type, data, fault) ==
    LET b == save_config_body(config_type, data, fault)
    IN  [table |-> b.table, fs |-> b.fs, raised |-> FALSE,
         ret |-> IF b.exc THEN "False" ELSE b.ret]

\* The body of load_config's try block, lines 418-447, applied to a given table and
\* file system.
load_config_from(table, fs, config_type, fault) ==
    IF USE_DATABASE /\ engine # "None"
    THEN IF fault = "db_error"
         THEN [exc |-> TRUE, ret |-> EmptyDict]
         ELSE IF Len(table[config_type]) > 0
              THEN [exc |-> FALSE, ret |-> json_loads(table[config_type][1])]
              ELSE [exc |-> FALSE, ret |-> EmptyDict]
    ELSE IF config_type \notin CONFIG_FILES
         THEN [exc |-> FALSE, ret |-> EmptyDict]
         ELSE IF fs[config_type].kind = "absent"
              THEN [exc |-> FALSE, ret |-> EmptyDict]
              ELSE IF fault = "read_error" \/ fs[config_type].kind = "partial"
                   THEN [exc |-> TRUE, ret |-> EmptyDict]
                   ELSE [exc |-> FALSE, ret |-> json_loads(fs[config_type].doc)]

\* The try block of load_config on the store as it is.
load_config_body(config_type, fault) ==
    load_config_from(bot_config, files, config_type, fault)

\* load_config with its except clause, lines 448-450: raised stays FALSE.
load_config_no_except(config_type, fault) ==
    LET b == load_config_body(config_type, fault)
    IN  [raised |-> b.exc, ret |-> b.ret]
load_config(config_type, fault) ==
    LET b == load_config_body(config_type, fault)
    IN  [raised |-> FALSE, ret |-> IF b.exc THEN EmptyDict ELSE b.ret]

(***************************************************************************)
(* Verification: the module globals and the handlers that touch them.      *)
(***************************************************************************)
MaxVUser == 1
MaxTasks == 2

VUsers == 1..MaxVUser
\* Two communities: the one a user joins and another one.
VGuilds == {1, 2}
\* Codes on_member_join can draw, str(random.randint(100, 999)) (line 762): two of them.
IssuedCodes == {"100", "101"}
\* What a user can type after /verify: an issued code or something else.
SubmitCodes == IssuedCodes \cup {"abc"}

\* str.upper(): digits are unchanged, letters are upper-cased.
upper(c) == IF c = "abc" THEN "ABC" ELSE c

\* The settings record /verification setup stores (lines 4612-4616, 5581-5585).
VerificationSettings == [enabled |-> TRUE, role |-> "role"]

\* The record on_member_join stores (lines 765-771).
PendingRecord(g, code) ==
    [guild_id |-> g, captcha_code |-> code, attempts |-> 0, issued_by |-> "None"]

\* `del d[k]` and `d[k] = v` on a dict.
DictDel(d, k) == [j \in DOMAIN d \ {k} |-> d[j]]
DictSet(d, k, v) == [j \in DOMAIN d \cup {k} |-> IF j = k THEN v ELSE d[j]]

\* Bookkeeping for the claims. verify_hist[u]: since the last issue to u (valid) the
\* number n of attempts that did not match and the response res of the last of
\* them; valid ends when the record is removed by anything but those attempts.
\* verify_result[u]: the response of the last finished attempt, whether its code
\* matched, whether u had a record when it finished, whether u had none after, and
\* what the response says of the verified role: "given" (role_given), "error" (a
\* role_error is shown), "not_given" (neither: the status field asks for a moderator).
NoHist == [valid |-> FALSE, n |-> 0, res |-> "none"]
NoResult == [res |-> "none", matched |-> FALSE, present |-> FALSE, gone |-> TRUE,
             role |-> "none"]
\* The attempts counted per issue before the model stops counting.
MaxCounted == 4

VerifyZero ==
    /\ verification_config = EmptyDict
    /\ pending_verifications = EmptyDict
    /\ verify_tasks = [u \in VUsers |-> 0]
    /\ verify_result = [u \in VUsers |-> NoResult]
    /\ verify_hist = [u \in VUsers |-> NoHist]

\* globals().get(f"{config_type}_config", {}) of save_config, lines 384-385, given the
\* value vc of the global verification_config: the module has no global called
\* pending_verifications_config, so that lookup yields the default {}.
globals_get(vc, config_type) ==
    IF config_type = "verification" THEN vc ELSE EmptyDict

\* auto_save_config, lines 477-479: save_config(config_type) with data=None, whose
\* return value every caller drops. The store after the call.
auto_save_config(table, fs, vc, config_type, fault) ==
    LET r == save_config_to(table, fs, config_type, globals_get(vc, config_type), fault)
    IN  [table |-> r.table, fs |-> r.fs]

\* The storage faults tried in the handlers' trailing saves: none, or the one that
\* changes what the backend in use holds.
HandlerFaults == IF USE_DATABASE /\ engine # "None" THEN {"none"} ELSE {"none", "write_error"}

\* /verification setup and /verify-setup setup, lines 4607-4617 and 5571-5586.
VerificationSetup ==
    \E g \in VGuilds :
        LET vc == DictSet(verification_config, StrKey(g), VerificationSettings)
            st == auto_save_config(bot_config, files, vc, "verification", "none")
        IN  /\ verification_config' = vc
            /\ bot_config' = st.table
            /\ files' = st.fs
            /\ UNCHANGED <<DATABASE_URL, probe_ok, USE_DATABASE, engine, store_op,
                           pending_verifications, verify_tasks, verify_result, verify_hist>>

\* /verification disable and /verify-setup disable, lines 4635-4641 and 5665-5668.
VerificationDisable ==
    \E g \in VGuilds :
        /\ StrKey(g) \in DOMAIN verification_config
        /\ LET vc == DictDel(verification_config, StrKey(g))
               st == auto_save_config(bot_config, files, vc, "verification", "none")
           IN  /\ verification_config' = vc
               /\ bot_config' = st.table
               /\ files' = st.fs
        /\ UNCHANGED <<DATABASE_URL, probe_ok, USE_DATABASE, engine, store_op,
                       pending_verifications, verify_tasks, verify_result, verify_hist>>

\* on_member_join for a member that is no bot, lines 751-771: the pending record is
\* stored before the first await and nothing is saved.
OnMemberJoinOf(u, g, code) ==
        /\ StrKey(g) \in DOMAIN verification_config
        /\ verification_config[StrKey(g)].enabled
        /\ pending_verifications' =
               DictSet(pending_verifications, IntKey(u), PendingRecord(g, code))
        /\ verify_hist' = [verify_hist EXCEPT ![u] = [NoHist EXCEPT !.valid = TRUE]]
        /\ UNCHANGED <<storeVars, verification_config, verify_tasks, verify_result>>

OnMemberJoin ==
    \E u \in VUsers, g \in VGuilds, code \in IssuedCodes : OnMemberJoinOf(u, g, code)

\* on_member_remove, lines 905-990, where the farewell is enabled: the cleanup of
\* lines 986-990.
OnMemberRemove ==
    \E u \in VUsers, g \in VGuilds :
        /\ IntKey(u) \in DOMAIN pending_verifications
        /\ pending_verifications[IntKey(u)].guild_id = g
        /\ pending_verifications' = DictDel(pending_verifications, IntKey(u))
        /\ verify_hist' = [verify_hist EXCEPT ![u] = NoHist]
        /\ UNCHANGED <<storeVars, verification_config, verify_tasks, verify_result>>

\* `if attempts >= 3`, line 5839.
ExhaustedOffByOne(attempts) == attempts > 3
ExhaustedNever(attempts) == FALSE
Exhausted(attempts) == attempts >= 3

\* `del pending_verifications[user_id]` of the success path, line 5800.
success_del_skipped(pending, u) == pending
success_del(pending, u) == DictDel(pending, IntKey(u))

\* One more attempt that did not match, with response res, in the bookkeeping.
Counted(h, res) == IF h.valid THEN [h EXCEPT !.n = h.n + 1, !.res = res] ELSE h

\* The success path had it stopped at a failed grant: the record is kept and the
\* generic error is the response.
VerifySucceedOnlyWithRole(u, fault, role) ==
    /\ role = "given" => pending_verifications' = success_del(pending_verifications, u)
    /\ role # "given" => pending_verifications' = pending_verifications
    /\ UNCHANGED <<bot_config, files>>
    /\ verify_result' = [verify_result EXCEPT ![u] =
           [res |-> IF role = "given" THEN "VERIFIED" ELSE "ERROR",
            matched |-> TRUE, present |-> TRUE,
            gone |-> IntKey(u) \notin DOMAIN pending_verifications',
            role |-> role]]
    /\ verify_hist' = [verify_hist EXCEPT ![u] = IF role = "given" THEN NoHist ELSE @]
\* The end of the success path, lines 5799-5831: the record is deleted, the pending
\* domain is saved and VERIFIED is the response, worded after the outcome of the
\* role grant (lines 5803-5828).
VerifySucceed(u, fault, role) ==
    LET st == auto_save_config(bot_config, files, verification_config,
                               "pending_verifications", fault)
    IN  /\ pending_verifications' = success_del(pending_verifications, u)
        /\ bot_config' = st.table
        /\ files' = st.fs
        /\ verify_result' = [verify_result EXCEPT ![u] =
               [res |-> "VERIFIED", matched |-> TRUE, present |-> TRUE,
                gone |-> IntKey(u) \notin DOMAIN pending_verifications',
                role |-> role]]
        /\ verify_hist' = [verify_hist EXCEPT ![u] = NoHist]

\* verify_slash for a user without a pending record, lines 5764-5766.
VerifyNoPending ==
    \E u \in VUsers :
        /\ IntKey(u) \notin DOMAIN pending_verifications
        /\ verify_hist[u].valid => verify_hist[u].n < MaxCounted
        /\ verify_result' = [verify_result EXCEPT ![u] =
               [res |-> "NO_PENDING", matched |-> FALSE, present |-> FALSE, gone |-> TRUE,
                role |-> "none"]]
        /\ verify_hist' = [verify_hist EXCEPT ![u] = Counted(@, "NO_PENDING")]
        /\ UNCHANGED <<storeVars, verification_config, pending_verifications, verify_tasks>>

\* What verify_slash finds at lines 5775-5789: the guild, the role and the member
\* ("ok": add_roles is awaited), no guild or no role (role_given stays False and no
\* role_error is set), or no member (role_error, line 5793).
GrantEnvs == {"ok", "no_role", "no_member"}
\* How the awaited add_roles ends: it returns (line 5791) or raises (lines 5794-5797).
GrantOutcomes == {"given", "error"}

\* verify_slash with the right code, lines 5768-5790, up to its await: with the guild
\* in verification_config and env "ok" add_roles is awaited; otherwise the handler
\* goes on to line 5799 at once.
VerifyMatchOf(u, code, env, fault) ==
        /\ IntKey(u) \in DOMAIN pending_verifications
        /\ upper(code) = upper(pending_verifications[IntKey(u)].captcha_code)
        /\ IF /\ StrKey(pending_verifications[IntKey(u)].guild_id) \in DOMAIN verification_config
              /\ env = "ok"
           THEN /\ fault = "none"
                /\ verify_tasks[u] < MaxTasks
                /\ verify_tasks' = [verify_tasks EXCEPT ![u] = @ + 1]
                /\ UNCHANGED <<bot_config, files, pending_verifications, verify_result,
                               verify_hist>>
           ELSE /\ VerifySucceed(u, fault,
                       IF /\ StrKey(pending_verifications[IntKey(u)].guild_id)
                                 \in DOMAIN verification_config
                          /\ env = "no_member"
                       THEN "error" ELSE "not_given")
                /\ UNCHANGED verify_tasks
        /\ UNCHANGED <<DATABASE_URL, probe_ok, USE_DATABASE, engine, store_op,
                       verification_config>>

VerifyMatch ==
    \E u \in VUsers, code \in SubmitCodes, env \in GrantEnvs, fault \in HandlerFaults :
        VerifyMatchOf(u, code, env, fault)

\* verify_slash with a wrong code, lines 5833-5873: no await before the response.
\* f1 and f2 are the faults of the saves of lines 5837 and 5842; the second save
\* rewrites what the first wrote, so when both run only the second's fault shows.
VerifyWrong ==
    \E u \in VUsers, code \in SubmitCodes, f1 \in HandlerFaults, f2 \in HandlerFaults :
        /\ IntKey(u) \in DOMAIN pending_verifications
        /\ upper(code) # upper(pending_verifications[IntKey(u)].captcha_code)
        /\ verify_hist[u].valid => verify_hist[u].n < MaxCounted
        /\ LET k == IntKey(u)
               n == pending_verifications[k].attempts + 1
               s1 == auto_save_config(bot_config, files, verification_config,
                                      "pending_verifications", f1)
               s2 == auto_save_config(s1.table, s1.fs, verification_config,
                                      "pending_verifications", f2)
               res == IF Exhausted(n) THEN "EXHAUSTED" ELSE "WRONG_CODE"
           IN  /\ IF Exhausted(n) THEN f1 = "none" ELSE f2 = "none"
               /\ pending_verifications' =
                     IF Exhausted(n)
                     THEN DictDel(pending_verifications, k)
                     ELSE [pending_verifications EXCEPT ![k].attempts = n]
               /\ bot_config' = IF Exhausted(n) THEN s2.table ELSE s1.table
               /\ files' = IF Exhausted(n) THEN s2.fs ELSE s1.fs
               /\ verify_result' = [verify_result EXCEPT ![u] =
                      [res |-> res, matched |-> FALSE, present |-> TRUE,
                       gone |-> k \notin DOMAIN pending_verifications',
                       role |-> "none"]]
               /\ verify_hist' = [verify_hist EXCEPT ![u] = Counted(@, res)]
        /\ UNCHANGED <<DATABASE_URL, probe_ok, USE_DATABASE, engine, store_op,
                       verification_config, verify_tasks>>

\* verify_slash resumed after `await member.add_roles`, lines 5790-5831; when the
\* `del` of line 5800 raises KeyError, the except clause of lines 5875-5881 answers
\* with the generic error. Whether the grant succeeded or raised (lines 5794-5797)
\* changes only the wording of the success response.
VerifyFinishOf(u, fault, grant) ==
        /\ verify_tasks[u] > 0
        /\ verify_tasks' = [verify_tasks EXCEPT ![u] = @ - 1]
        /\ IF IntKey(u) \in DOMAIN pending_verifications
           THEN VerifySucceed(u, fault, grant)
           ELSE /\ grant = "given" /\ fault = "none"
                /\ verify_result' = [verify_result EXCEPT ![u] =
                       [res |-> "ERROR", matched |-> TRUE, present |-> FALSE, gone |-> TRUE,
                        role |-> "none"]]
                /\ UNCHANGED <<bot_config, files, pending_verifications, verify_hist>>
        /\ UNCHANGED <<DATABASE_URL, probe_ok, USE_DATABASE, engine, store_op,
                       verification_config>>

VerifyFinish ==
    \E u \in VUsers, fault \in HandlerFaults, grant \in GrantOutcomes :
        VerifyFinishOf(u, fault, grant)

(***************************************************************************)
(* The wall clock read by add_xp (int(time.time()), line 596) and the      *)
(* time of a member join.                                                  *)
(***************************************************************************)
StartTime == 100
MaxTicks == 3

ClockZero == now = StartTime /\ ticks = 0

Tick(steps) ==
    \E d \in steps :
        /\ ticks < MaxTicks
        /\ now' = now + d
        /\ ticks' = ticks + 1

(***************************************************************************)
(* Leveling (main.py 305-306, 527-612, 3657-3685, 6133-6186).              *)
(***************************************************************************)
MaxLUser == 1
MaxSends == 1

LGuilds == {1}
LUsers == 1..MaxLUser
\* random.randint(15, 25) of line 3666: the two ends of the range.
XpGains == {15, 25}
\* The cooldown of line 597.
XP_COOLDOWN == 60

\* The record get_user_data creates, lines 574-579.
FreshRecord == [xp |-> 0, level |-> 1, messages |-> 0, last_xp_gain |-> 0]

NoLevelEvent == [seq |-> 0, g |-> 1, u |-> 1, gain |-> 0, res |-> "none", level_up |-> FALSE]

LevelZero ==
    /\ user_levels = EmptyDict
    /\ guild_level_config = EmptyDict
    /\ level_files = [user_levels |-> Absent, level_config |-> Absent]
    /\ level_sends = 0
    /\ level_event = NoLevelEvent
    /\ gained_at = [p \in LGuilds \X LUsers |-> 0]

\* get_user_data, lines 565-581: the user_levels after the call; the record it
\* returns is user_levels[str(guild_id)][str(user_id)] of that value.
get_user_data(ul, guild_id, user_id) ==
    LET guild_key == StrKey(guild_id)
        user_key == StrKey(user_id)
        with_guild == IF guild_key \in DOMAIN ul THEN ul ELSE DictSet(ul, guild_key, EmptyDict)
    IN  IF user_key \in DOMAIN with_guild[guild_key]
        THEN with_guild
        ELSE DictSet(with_guild, guild_key,
                     DictSet(with_guild[guild_key], user_key, FreshRecord))

\* calculate_level, lines 583-585: int((xp / 100) ** 0.5) + 1. xp / 100 is a true
\* division and int() truncates the square root: the largest r with r * r <= xp / 100.
\* (The double-precision result agrees with the exact one on this range.)
calculate_level_no_floor(xp) ==
    (CHOOSE r \in 0..(xp + 1) : r * r * 100 >= xp /\ (r = 0 \/ (r - 1) * (r - 1) * 100 < xp)) + 1
calculate_level_from_zero(xp) ==
    CHOOSE r \in 0..xp : r * r * 100 <= xp /\ (r + 1) * (r + 1) * 100 > xp
calculate_level(xp) ==
    (CHOOSE r \in 0..xp : r * r * 100 <= xp /\ (r + 1) * (r + 1) * 100 > xp) + 1

\* xp_for_level, lines 587-589.
xp_for_level(level) == ((level - 1) * (level - 1)) * 100

\* The cooldown test of line 597.
in_cooldown_inclusive(current_time, last_xp_gain) == current_time - last_xp_gain <= XP_COOLDOWN
in_cooldown(current_time, last_xp_gain) == current_time - last_xp_gain < XP_COOLDOWN

\* json.dump of user_levels, line 542: the guild keys and the user keys are written
\* as strings.
json_dump_nested(d) ==
    LET top == json_dumps(d)
    IN  [k \in DOMAIN top |-> json_dumps(top[k])]

\* save_user_data, lines 538-544, and save_level_config, lines 557-563: open(.., 'w')
\* and json.dump. A failure is logged and swallowed and changes nothing in memory; no
\* handler reads the files back, so the write is taken in its successful outcome.
save_level_file_lost(doc) == Absent
save_level_file(doc) == JsonFile(doc)

\* add_xp, lines 591-612, at wall-clock time current_time: the user_levels after the
\* call, whether it gained, the level_up it returns and whether it saved.
add_xp(ul, guild_id, user_id, xp_gain, current_time) ==
    LET guild_key == StrKey(guild_id)
        user_key == StrKey(user_id)
        got == get_user_data(ul, guild_id, user_id)
        user_data == got[guild_key][user_key]
        new_xp == user_data.xp + xp_gain
        old_level == user_data.level
        new_level == calculate_level(new_xp)
        new_data == [xp |-> new_xp, level |-> new_level,
                     messages |-> user_data.messages + 1,
                     last_xp_gain |-> current_time]
    IN  IF in_cooldown(current_time, user_data.last_xp_gain)
        THEN [user_levels |-> got, gained |-> FALSE, level_up |-> FALSE, saved |-> FALSE]
        ELSE [user_levels |-> DictSet(got, guild_key, DictSet(got[guild_key], user_key, new_data)),
              gained |-> TRUE, level_up |-> new_level > old_level, saved |-> TRUE]

\* The record of a pair as get_user_data would return it.
RecordOf(ul, g, u) ==
    IF StrKey(g) \in DOMAIN ul /\ StrKey(u) \in DOMAIN ul[StrKey(g)]
    THEN ul[StrKey(g)][StrKey(u)]
    ELSE FreshRecord

\* config_level_command, lines 6133-6166, by an administrator.
ConfigLevel ==
    \E g \in LGuilds, enabled \in BOOLEAN :
        /\ guild_level_config' = DictSet(guild_level_config, StrKey(g), [enabled |-> enabled])
        /\ level_files' = [level_files EXCEPT
                              !.level_config = save_level_file(json_dumps(guild_level_config'))]
        /\ UNCHANGED <<user_levels, level_sends, level_event, gained_at, now, ticks>>

\* on_message, lines 3657-3685, for a message of a member who is not a bot in a guild
\* whose leveling is enabled (lines 3662-3665); add_xp runs before the handler's
\* first await, the send of the level-up message at line 3682.
OnMessage ==
    \E g \in LGuilds, u \in LUsers, xp_gain \in XpGains :
        LET r == add_xp(user_levels, g, u, xp_gain, now)
        IN  /\ StrKey(g) \in DOMAIN guild_level_config
            /\ guild_level_config[StrKey(g)].enabled
            /\ r.level_up => level_sends < MaxSends
            /\ user_levels' = r.user_levels
            /\ level_files' = IF r.saved
                              THEN [level_files EXCEPT
                                       !.user_levels = save_level_file(json_dump_nested(r.user_levels))]
                              ELSE level_files
            /\ level_sends' = IF r.level_up THEN level_sends + 1 ELSE level_sends
            /\ level_event' = [seq |-> 1 - level_event.seq, g |-> g, u |-> u, gain |-> xp_gain,
                               res |-> IF r.gained THEN "gained" ELSE "suppressed",
                               level_up |-> r.level_up]
            /\ gained_at' = IF RecordOf(r.user_levels, g, u).xp # RecordOf(user_levels, g, u).xp
                            THEN [gained_at EXCEPT ![<<g, u>>] = now]
                            ELSE gained_at
            /\ UNCHANGED <<guild_level_config, now, ticks>>

\* on_message resumed after the send of the level-up message, lines 3682-3685: what
\* follows does not touch the leveling data.
LevelUpSent ==
    /\ level_sends > 0
    /\ level_sends' = level_sends - 1
    /\ UNCHANGED <<user_levels, guild_level_config, level_files, level_event, gained_at,
                   now, ticks>>

\* level_command, lines 6174-6186: get_user_data creates the record of a member who
\* has none; nothing is saved.
LevelCommand ==
    \E g \in LGuilds, u \in LUsers :
        /\ user_levels' = get_user_data(user_levels, g, u)
        /\ UNCHANGED <<guild_level_config, level_files, level_sends, level_event, gained_at,
                       now, ticks>>

LevelTickSteps == {59, 60}
LevelTick ==
    /\ Tick(LevelTickSteps)
    /\ UNCHANGED <<user_levels, guild_level_config, level_files, level_sends, level_event,
                   gained_at>>

\* on_message, lines 3657-3665, for a message leveling awards nothing for: the
\* author is a bot (line 3662), or the guild's leveling is not enabled (line 3664).
\* add_xp is not called.
OnMessageIgnored ==
    \E g \in LGuilds, u \in LUsers, author_bot \in BOOLEAN :
        /\ \/ author_bot
           \/ IF StrKey(g) \in DOMAIN guild_level_config
              THEN ~guild_level_config[StrKey(g)].enabled
              ELSE TRUE
        /\ level_ignored' = 1 - level_ignored
        /\ UNCHANGED <<levelVars, clockVars, board_shown, board_call>>

(***************************************************************************)
(* calculate_level as a function of its argument.                          *)
(***************************************************************************)
MaxCalcXp == 450

NoCalc == [xp |-> 0, done |-> FALSE, level |-> 0]
CalcZero == calc_call = NoCalc

CalcInit == calc_call \in {[NoCalc EXCEPT !.xp = x] : x \in 0..MaxCalcXp}

CalculateLevel ==
    /\ ~calc_call.done
    /\ calc_call' = [calc_call EXCEPT !.done = TRUE, !.level = calculate_level(calc_call.xp)]

(***************************************************************************)
(* Raid protection (main.py 336, 751-827, 4498-4592).                      *)
(***************************************************************************)
MaxJoins == 10

RGuilds == {1}
\* The thresholds and responses an administrator gives: lines 4506 and 4510 accept
\* 1..50 and lockdown / kick / ban.
RaidThresholds == {10, 50}
RaidResponses == {"lockdown", "kick"}
\* The window the enable response announces, lines 4525 and 4532.
RAID_WINDOW == 30

RaidZero ==
    /\ raid_protection_config = EmptyDict
    /\ join_log = [g \in RGuilds |-> <<>>]

\* raidprotection_slash enable, lines 4505-4535.
RaidEnable ==
    \E g \in RGuilds, threshold \in RaidThresholds, response \in RaidResponses :
        /\ raid_protection_config' = DictSet(raid_protection_config, StrKey(g),
               [enabled |-> TRUE, threshold |-> threshold, action |-> response,
                recent_joins |-> <<>>, locked_down |-> FALSE])
        /\ join_log' = [join_log EXCEPT ![g] = <<>>]
        /\ UNCHANGED <<now, ticks>>

\* raidprotection_slash disable, lines 4537-4542.
RaidDisable ==
    \E g \in RGuilds :
        /\ StrKey(g) \in DOMAIN raid_protection_config
        /\ raid_protection_config' = DictDel(raid_protection_config, StrKey(g))
        /\ join_log' = [join_log EXCEPT ![g] = <<>>]
        /\ UNCHANGED <<now, ticks>>

\* raidprotection_slash config, lines 4570-4589.
RaidConfig ==
    \E g \in RGuilds, threshold \in RaidThresholds, response \in RaidResponses :
        /\ StrKey(g) \in DOMAIN raid_protection_config
        /\ raid_protection_config' = [raid_protection_config EXCEPT ![StrKey(g)] =
               [@ EXCEPT !.threshold = threshold, !.action = response]]
        /\ UNCHANGED <<join_log, now, ticks>>

\* The join times of join_log that fall in the window ending at time t.
InWindow(s, t) == SelectSeq(s, LAMBDA x : x > t - RAID_WINDOW)

\* A join handler that kept the record up to date: the join times of the window in
\* recent_joins, locked_down once they reach the threshold.
raid_after_join_tracking(cfg, k, t) ==
    IF k \in DOMAIN cfg
    THEN LET recent == Append(InWindow(cfg[k].recent_joins, t), t)
         IN  [cfg EXCEPT ![k] = [@ EXCEPT !.recent_joins = recent,
                                          !.locked_down = @ \/ Len(recent) >= cfg[k].threshold]]
    ELSE cfg

\* What on_member_join, lines 751-827, leaves of raid_protection_config after the
\* join at time t in the guild with key k: no statement of the handler names the map.
raid_after_join(cfg, k, t) == cfg

\* on_member_join, lines 751-827: the handler neither reads nor writes
\* raid_protection_config. join_log keeps the times of the joins of the last
\* RAID_WINDOW seconds since raid protection was switched on or off.
OnMemberJoinRaid ==
    \E g \in RGuilds :
        /\ Len(InWindow(join_log[g], now)) < MaxJoins
        /\ join_log' = [join_log EXCEPT ![g] = Append(InWindow(join_log[g], now), now)]
        /\ raid_protection_config' = raid_after_join(raid_protection_config, StrKey(g), now)
        /\ UNCHANGED <<now, ticks>>

RaidTickSteps == {10, 30}
RaidTick ==
    /\ Tick(RaidTickSteps)
    /\ UNCHANGED <<raid_protection_config, join_log>>

(***************************************************************************)
(* The leaderboard (main.py 6258-6306).                                    *)
(***************************************************************************)
NoBoard == [g |-> 0, shown |-> {}]
NoBoardCall == [levels |-> <<>>, done |-> FALSE, g |-> 0, out |-> <<>>]

BoardZero ==
    /\ level_ignored = 0
    /\ board_shown = NoBoard
    /\ board_call = NoBoardCall

\* `sorted_users[:10]`, line 6280.
TOP_N == 10

\* The user keys of the first TOP_N entries of a guild's records sorted by xp,
\* highest first (lines 6273-6280).
top_keys(d) ==
    IF Cardinality(DOMAIN d) <= TOP_N
    THEN DOMAIN d
    ELSE CHOOSE S \in SUBSET DOMAIN d :
             /\ Cardinality(S) = TOP_N
             /\ \A a \in S, b \in DOMAIN d \ S : d[a].xp >= d[b].xp

\* leaderboard_command, lines 6258-6306, in a guild whose listed members are all
\* still members: nothing is listed when the guild has no records (lines 6264-6271).
LeaderboardCommand ==
    \E g \in LGuilds :
        /\ board_shown' =
               [g |-> g,
                shown |-> IF StrKey(g) \in DOMAIN user_levels
                          THEN top_keys(user_levels[StrKey(g)])
                          ELSE {}]
        /\ UNCHANGED <<levelVars, clockVars, level_ignored, board_call>>

(***************************************************************************)
(* Backups, the leveling files under faults, and the bookkeeping of the    *)
(* process (main.py 486-511, 527-563).                                     *)
(***************************************************************************)
NoProcess == [state |-> "running", unread |-> EmptyDict]

RunZero ==
    /\ process = NoProcess
    /\ backups = EmptyDict

RaceZero ==
    /\ role_grants = [u \in VUsers |-> 0]
    /\ issued_in_flight = [u \in VUsers |-> FALSE]

\* What the store holds for a domain in a given table and file system.
stored_in(table, fs, d) ==
    IF USE_DATABASE /\ engine # "None"
    THEN IF Len(table[d]) > 0 THEN JsonFile(table[d][1]) ELSE Absent
    ELSE IF d \in CONFIG_FILES THEN fs[d] ELSE Absent

\* The files create_backup looks for: the CONFIG_FILES (line 497) and the two
\* leveling files (lines 504-507).
BackupNames == CONFIG_FILES \cup {"user_levels", "level_config"}
backup_sources(fs, lfiles) ==
    [n \in BackupNames |-> IF n \in CONFIG_FILES THEN fs[n] ELSE lfiles[n]]

\* What can go wrong in create_backup: nothing, or os.makedirs or the first copy
\* raising, which leaves the directory as it was.
BackupFaults == {"none", "error"}

\* The try block of create_backup, lines 491-509, at the second `timestamp`: every
\* file that exists is copied under a name made of its domain and the timestamp
\* (shutil.copy2 overwrites a copy of the same name); the bot_config table is not
\* read.
create_backup_body(fs, lfiles, archives, timestamp, fault) ==
    LET src == backup_sources(fs, lfiles)
        old == IF timestamp \in DOMAIN archives THEN archives[timestamp] ELSE EmptyDict
        copied == {n \in BackupNames : src[n].kind # "absent"}
        new == [n \in DOMAIN old \cup copied |-> IF n \in copied THEN src[n] ELSE old[n]]
    IN  IF fault = "error"
        THEN [archives |-> archives, exc |-> TRUE, ret |-> "False"]
        ELSE [archives |-> IF DOMAIN new = {} THEN archives
                           ELSE DictSet(archives, timestamp, new),
              exc |-> FALSE, ret |-> "True"]

\* create_backup with its except clause, lines 510-511.
create_backup(fs, lfiles, archives, timestamp, fault) ==
    LET b == create_backup_body(fs, lfiles, archives, timestamp, fault)
    IN  [archives |-> b.archives, raised |-> FALSE, ret |-> IF b.exc THEN "False" ELSE b.ret]

\* What can go wrong in the write of a leveling file: nothing, open() failing (the
\* file is untouched) or the write failing after open(.., 'w') truncated the file.
LevelFaults == {"none", "open_error", "write_error"}

\* The try block of save_user_data and of save_level_config, lines 540-542 and
\* 559-561, on the file and the document json.dump writes.
save_json_file(file, doc, fault) ==
    IF fault = "open_error" THEN [file |-> file, exc |-> TRUE]
    ELSE IF fault = "write_error" THEN [file |-> Partial, exc |-> TRUE]
    ELSE [file |-> save_level_file(doc), exc |-> FALSE]

\* save_user_data, lines 538-544: the except clause logs and returns.
save_user_data_no_except(file, ul, fault) ==
    LET b == save_json_file(file, json_dump_nested(ul), fault)
    IN  [file |-> b.file, raised |-> b.exc]
save_user_data(file, ul, fault) ==
    LET b == save_json_file(file, json_dump_nested(ul), fault)
    IN  [file |-> b.file, raised |-> FALSE]

\* save_level_config, lines 557-563.
save_level_config(file, glc, fault) ==
    LET b == save_json_file(file, json_dumps(glc), fault)
    IN  [file |-> b.file, raised |-> FALSE]

(***************************************************************************)
(* The process over its runs: the hourly save, shutdown and restart        *)
(* (main.py 452-525, 630-645, 698-708), and the /captcha command           *)
(* (5684-5697).                                                            *)
(***************************************************************************)
CaptchaDifficulties == {"easy", "medium", "hard"}

NoCaptcha == [seq |-> 0, u |-> 1, g |-> 1, moderator |-> "none", difficulty |-> "medium"]

LifeZero ==
    /\ carried = [u \in VUsers |-> FALSE]
    /\ captcha_event = NoCaptcha

\* The records the pending map holds for a user, under the int key member.id that
\* the handlers use and under the str key a reloaded map has.
HasRecord(pending, u) == IntKey(u) \in DOMAIN pending \/ StrKey(u) \in DOMAIN pending
EntriesOf(pending, u) ==
    [k \in {IntKey(u), StrKey(u)} \cap DOMAIN pending |-> pending[k]]

\* A save_all_configs that leaves the store alone for a map that is empty.
save_all_configs_skip_empty(table, fs, vc, pv, f1, f2) ==
    LET s1 == IF vc = EmptyDict THEN [table |-> table, fs |-> fs]
              ELSE save_config_to(table, fs, "verification", vc, f1)
        s2 == IF pv = EmptyDict THEN s1
              ELSE save_config_to(s1.table, s1.fs, "pending_verifications", pv, f2)
    IN  [table |-> s2.table, fs |-> s2.fs]

\* save_all_configs, lines 466-475, for the two domains of the model: each map is
\* passed as data.
save_all_configs(table, fs, vc, pv, f1, f2) ==
    LET s1 == save_config_to(table, fs, "verification", vc, f1)
        s2 == save_config_to(s1.table, s1.fs, "pending_verifications", pv, f2)
    IN  [table |-> s2.table, fs |-> s2.fs]

\* load_user_data and load_level_config, lines 527-555, in a fresh process: the
\* global starts as {} and takes the file's document when the file can be read.
load_level_file(file) == IF file.kind = "json" THEN json_loads(file.doc) ELSE EmptyDict

\* save_user_data and save_level_config as auto_backup_configs and
\* graceful_shutdown call them, lines 703-704 and 517-518.
SaveLevelFiles ==
    level_files' = [user_levels |-> save_level_file(json_dump_nested(user_levels)),
                    level_config |-> save_level_file(json_dumps(guild_level_config))]

\* What every step but a restart does to carried: it stays while neither the user's
\* records nor the user's last response change.
Carry ==
    carried' = [u \in VUsers |->
                   /\ carried[u]
                   /\ EntriesOf(pending_verifications', u) = EntriesOf(pending_verifications, u)
                   /\ verify_result'[u] = verify_result[u]]

\* auto_backup_configs, lines 698-708: save_all_configs, save_user_data,
\* save_level_config; create_backup then copies the flat files into config_backups.
AutoBackupConfigs ==
    \E f1 \in HandlerFaults, f2 \in HandlerFaults :
        LET st == save_all_configs(bot_config, files, verification_config,
                                   pending_verifications, f1, f2)
        IN  /\ bot_config' = st.table
            /\ files' = st.fs
            /\ SaveLevelFiles
            /\ backups' = create_backup(st.fs, level_files', backups, now, "none").archives
            /\ UNCHANGED <<DATABASE_URL, probe_ok, USE_DATABASE, engine, store_op, process,
                           verifyVars, clockVars, user_levels, guild_level_config,
                           level_sends, level_event, gained_at, calcVars, raidVars,
                           captcha_event, boardVars, raceVars>>
            /\ Carry

\* The process ends and starts again in the same environment. graceful: a SIGTERM or
\* SIGINT runs graceful_shutdown (lines 513-521), which saves as auto_backup_configs
\* does; otherwise the process is killed and nothing is saved. The new process
\* chooses its backend as before (lines 309-328) and setup_hook (lines 630-645)
\* loads the leveling files and load_all_configs (lines 452-464) the config maps;
\* the handlers in flight are gone.
\* The read faults of a startup, one per file or row read: load_user_data and
\* load_level_config (lines 527-555) and load_config (lines 415-450).
LevelReadFaults == {"none", "read_error"}
NoReadFaults == [verification |-> "none", pending_verifications |-> "none",
                 user_levels |-> "none", level_config |-> "none"]
\* The faults of one startup: none, one read failing, or every read failing.
ReadFaultSets ==
    LET bad(n) == IF n \in CONFIG_FILES THEN LoadFaults \ {"none"}
                  ELSE LevelReadFaults \ {"none"}
    IN  {NoReadFaults}
        \cup UNION {{[NoReadFaults EXCEPT ![n] = x] : x \in bad(n)} :
                       n \in DOMAIN NoReadFaults}
        \cup {[n \in DOMAIN NoReadFaults |-> CHOOSE x \in bad(n) : TRUE]}

\* load_user_data and load_level_config under a read fault: a file that exists and
\* cannot be read or parsed leaves the global {} (lines 533-535 and 552-554).
level_file_unread(file, fault) ==
    file.kind = "partial" \/ (fault = "read_error" /\ file.kind # "absent")
load_level_file_with(file, fault) ==
    IF level_file_unread(file, fault) THEN EmptyDict ELSE load_level_file(file)

\* What a startup could not read, with the content that was stored.
unread_at_boot(table, fs, lfiles, rf) ==
    LET failed == {d \in CONFIG_FILES : load_config_from(table, fs, d, rf[d]).exc}
                  \cup {n \in {"user_levels", "level_config"} :
                           level_file_unread(lfiles[n], rf[n])}
    IN  [n \in failed |-> IF n \in CONFIG_FILES THEN stored_in(table, fs, n) ELSE lfiles[n]]

RestartWith(graceful, f1, f2, rf) ==
        LET st == IF graceful
                  THEN save_all_configs(bot_config, files, verification_config,
                                        pending_verifications, f1, f2)
                  ELSE [table |-> bot_config, fs |-> files]
            lf == IF graceful
                  THEN [user_levels |-> save_level_file(json_dump_nested(user_levels)),
                        level_config |-> save_level_file(json_dumps(guild_level_config))]
                  ELSE level_files
        IN  /\ graceful \/ (f1 = "none" /\ f2 = "none")
            /\ bot_config' = st.table
            /\ files' = st.fs
            /\ level_files' = lf
            /\ backups' = IF graceful
                          THEN create_backup(st.fs, lf, backups, now, "none").archives
                          ELSE backups
            /\ verification_config' =
                   load_config_from(st.table, st.fs, "verification", rf.verification).ret
            /\ pending_verifications' =
                   load_config_from(st.table, st.fs, "pending_verifications",
                                    rf.pending_verifications).ret
            /\ user_levels' = load_level_file_with(lf.user_levels, rf.user_levels)
            /\ guild_level_config' = load_level_file_with(lf.level_config, rf.level_config)
            /\ level_sends' = 0
            /\ verify_tasks' = [u \in VUsers |-> 0]
            /\ verify_result' = [u \in VUsers |-> NoResult]
            /\ verify_hist' = [u \in VUsers |-> NoHist]
            /\ carried' = [u \in VUsers |-> graceful /\ HasRecord(pending_verifications, u)]
            /\ process' = [state |-> "running",
                           unread |-> unread_at_boot(st.table, st.fs, lf, rf)]
            /\ UNCHANGED <<DATABASE_URL, probe_ok, USE_DATABASE, engine, store_op, clockVars,
                           level_event, gained_at, calcVars, raidVars, captcha_event,
                           level_ignored, board_call, raceVars>>
            /\ board_shown' = NoBoard

Restart ==
    \E graceful \in BOOLEAN, f1 \in HandlerFaults, f2 \in HandlerFaults :
        RestartWith(graceful, f1, f2, NoReadFaults)

\* A process starts after the last one ended without a save of its own (it was
\* killed, or its shutdown handler has already run), under any read faults.
Startup == \E rf \in ReadFaultSets : RestartWith(FALSE, "none", "none", rf)

\* captcha_slash, lines 5684-5697: the deprecation notice is sent and the handler
\* returns; the code below the return (lines 5699-5753) never runs.
CaptchaSlash ==
    \E u \in VUsers, g \in VGuilds, difficulty \in CaptchaDifficulties :
        /\ captcha_event' = [seq |-> 1 - captcha_event.seq, u |-> u, g |-> g,
                             moderator |-> "moderator", difficulty |-> difficulty]
        /\ UNCHANGED <<storeVars, verifyVars, clockVars, levelVars, calcVars, raidVars,
                       boardVars, runVars, raceVars>>
        /\ Carry

\* The faults of the steps of graceful_shutdown, its two config saves (c1, c2), its
\* two leveling saves (l1, l2) and its backup (b): no step fails, one step fails in
\* one of its ways, or every step fails (a full disk, a lost database connection).
NoShutdownFaults == [c1 |-> "none", c2 |-> "none", l1 |-> "none", l2 |-> "none", b |-> "none"]
ShutdownFaultKinds(k) ==
    IF k \in {"c1", "c2"} THEN SaveFaults \ {"none"}
    ELSE IF k = "b" THEN BackupFaults \ {"none"}
    ELSE LevelFaults \ {"none"}
ShutdownFaults ==
    LET worst == IF USE_DATABASE /\ engine # "None" THEN "db_error" ELSE "write_error"
    IN  {NoShutdownFaults}
        \cup UNION {{[NoShutdownFaults EXCEPT ![k] = x] : x \in ShutdownFaultKinds(k)} :
                       k \in DOMAIN NoShutdownFaults}
        \cup {[c1 |-> worst, c2 |-> worst, l1 |-> "write_error", l2 |-> "write_error",
               b |-> "error"]}

\* graceful_shutdown, lines 513-521, as a function of what it reads: the store, the
\* leveling files and the backups it leaves, and whether it reached sys.exit(0). A
\* call that raises ends the handler there.
graceful_shutdown(table, fs, vc, pv, ul, glc, lfiles, archives, timestamp, f) ==
    LET s1 == save_all_configs(table, fs, vc, pv, f.c1, f.c2)
        s2 == save_user_data(lfiles.user_levels, ul, f.l1)
        s3 == save_level_config(lfiles.level_config, glc, f.l2)
        lf == [user_levels |-> s2.file,
               level_config |-> IF s2.raised THEN lfiles.level_config ELSE s3.file]
        s4 == create_backup(s1.fs, lf, archives, timestamp, f.b)
        stopped == s2.raised \/ s3.raised
    IN  [table |-> s1.table, fs |-> s1.fs, level_files |-> lf,
         archives |-> IF stopped THEN archives ELSE s4.archives,
         exits |-> ~(stopped \/ s4.raised)]

\* SIGTERM or SIGINT arrives (lines 524-525 register one handler for both); Python
\* runs the handler in the main thread before any further step of the event loop.
Signal ==
    \E signum \in {"SIGTERM", "SIGINT"} :
        /\ process.state = "running"
        /\ process' = [process EXCEPT !.state = "signalled"]
        /\ UNCHANGED <<storeVars, verifyVars, clockVars, levelVars, calcVars, raidVars,
                       lifeVars, boardVars, backups, raceVars>>

\* graceful_shutdown runs, lines 513-521, under the faults f.
GracefulShutdownWith(f) ==
    /\ process.state = "signalled"
    /\  LET r == graceful_shutdown(bot_config, files, verification_config,
                                   pending_verifications, user_levels, guild_level_config,
                                   level_files, backups, now, f)
        IN  /\ bot_config' = r.table
            /\ files' = r.fs
            /\ level_files' = r.level_files
            /\ backups' = r.archives
            /\ process' = [process EXCEPT !.state = IF r.exits THEN "exited" ELSE "running"]
    /\ UNCHANGED <<DATABASE_URL, probe_ok, USE_DATABASE, engine, store_op,
                   verifyVars, clockVars, user_levels, guild_level_config,
                   level_sends, level_event, gained_at, calcVars, raidVars,
                   lifeVars, boardVars, raceVars>>

GracefulShutdown == \E f \in ShutdownFaults : GracefulShutdownWith(f)

(***************************************************************************)
(* The store on its own: calls of save_config and load_config with every  *)
(* payload a component stores, under the backend chosen at import.        *)
(***************************************************************************)
\* The payloads a component hands to save_config: pending_verifications is keyed by
\* member.id (an int, lines 765 and 5711), the config maps by str(guild.id).
StorePayloads(d) ==
    IF d = "pending_verifications"
    THEN DictsOver({IntKey(n) : n \in 1..MaxStoreKey}, StoreVals)
    ELSE DictsOver({StrKey(n) : n \in 1..MaxStoreKey}, StoreVals)

\* What the store holds for a domain under the backend in use.
Stored(d) ==
    IF USE_DATABASE /\ engine # "None"
    THEN IF Len(bot_config[d]) > 0 THEN JsonFile(bot_config[d][1]) ELSE Absent
    ELSE IF d \in CONFIG_FILES THEN files[d] ELSE Absent

NoOp == [op |-> "none", d |-> "verification", p |-> EmptyDict, fault |-> "none",
         ret |-> "none", out |-> EmptyDict, raised |-> FALSE, before |-> Absent,
         after_save |-> FALSE, saved |-> EmptyDict, save_ret |-> "none",
         save_before |-> Absent]

StoreInit ==
    /\ DATABASE_URL \in EnvUrls
    /\ probe_ok \in BOOLEAN
    /\ USE_DATABASE = BootUseDatabase(DATABASE_URL, probe_ok)
    /\ engine = BootEngine(DATABASE_URL, probe_ok)
    /\ bot_config = [d \in StoreDomains |-> <<>>]
    /\ files = [d \in CONFIG_FILES |-> Absent]
    /\ store_op = NoOp

\* The config_type arguments tried: the unknown one only where the code looks at it,
\* on the flat-file path (lines 403 and 436).
CallDomains == IF USE_DATABASE /\ engine # "None" THEN CONFIG_FILES ELSE StoreDomains

StoreSave ==
    \E d \in CallDomains, fault \in SaveFaults :
      \E p \in StorePayloads(d) :
        LET r == save_config(d, p, fault)
        IN  /\ bot_config' = r.table
            /\ files' = r.fs
            /\ store_op' = [NoOp EXCEPT !.op = "save", !.d = d, !.p = p,
                                        !.fault = fault, !.ret = r.ret,
                                        !.raised = r.raised, !.before = Stored(d)]
            /\ UNCHANGED <<DATABASE_URL, probe_ok, USE_DATABASE, engine>>

StoreLoad ==
    \E d \in CallDomains, fault \in LoadFaults :
        LET r == load_config(d, fault)
            follows == store_op.op = "save" /\ store_op.d = d
        IN  /\ store_op' = [NoOp EXCEPT !.op = "load", !.d = d, !.fault = fault,
                                        !.out = r.ret, !.raised = r.raised,
                                        !.before = Stored(d),
                                        !.after_save = follows,
                                        !.saved = IF follows THEN store_op.p ELSE EmptyDict,
                                        !.save_ret = IF follows THEN store_op.ret ELSE "none",
                                        !.save_before = IF follows THEN store_op.before ELSE Absent]
            /\ UNCHANGED <<DATABASE_URL, probe_ok, USE_DATABASE, engine, bot_config, files>>

StoreNext ==
    /\ StoreSave \/ StoreLoad
    /\ UNCHANGED <<verifyVars, clockVars, levelVars, calcVars, raidVars, lifeVars, boardVars,
                   runVars, raceVars>>

StoreAloneInit ==
    StoreInit /\ VerifyZero /\ ClockZero /\ LevelZero /\ CalcZero /\ RaidZero /\ LifeZero /\ BoardZero /\ RunZero /\ RaceZero

SpecStore == StoreAloneInit /\ [][StoreNext]_vars

(***************************************************************************)
(* Verification as a whole.                                                *)
(***************************************************************************)
\* The environment of a running process: one of the two backends.
VerifyInit ==
    /\ StoreInit
    /\ DATABASE_URL \in {"unset", "url"}
    /\ probe_ok
    /\ VerifyZero
    /\ ClockZero /\ LevelZero /\ CalcZero /\ RaidZero /\ LifeZero /\ BoardZero /\ RunZero /\ RaceZero

VerifyNext ==
    /\ \/ VerificationSetup
       \/ VerificationDisable
       \/ OnMemberJoin
       \/ OnMemberRemove
       \/ VerifyNoPending
       \/ VerifyMatch
       \/ VerifyWrong
       \/ VerifyFinish
    /\ UNCHANGED <<clockVars, levelVars, calcVars, raidVars, lifeVars, boardVars, runVars,
                   raceVars>>

SpecVerify == VerifyInit /\ [][VerifyNext]_vars

(***************************************************************************)
(* Leveling, calculate_level and raid protection as a whole: the process   *)
(* runs on flat files, the store and the verification handlers are idle.   *)
(***************************************************************************)
StoreIdle == StoreInit /\ DATABASE_URL = "unset" /\ probe_ok /\ VerifyZero

LevelInit == StoreIdle /\ ClockZero /\ LevelZero /\ CalcZero /\ RaidZero /\ LifeZero /\ BoardZero /\ RunZero /\ RaceZero

LevelHandlers ==
    \/ ConfigLevel
    \/ OnMessage
    \/ LevelUpSent
    \/ LevelCommand
    \/ LevelTick

LevelNext ==
    /\ \/ LevelHandlers /\ UNCHANGED boardVars
       \/ OnMessageIgnored
    /\ UNCHANGED <<storeVars, verifyVars, calcVars, raidVars, lifeVars, runVars, raceVars>>

SpecLevel == LevelInit /\ [][LevelNext]_vars

CalcAloneInit == StoreIdle /\ ClockZero /\ LevelZero /\ CalcInit /\ RaidZero /\ LifeZero /\ BoardZero /\ RunZero /\ RaceZero

CalcNext ==
    /\ CalculateLevel
    /\ UNCHANGED <<storeVars, verifyVars, clockVars, levelVars, raidVars, lifeVars, boardVars,
                   runVars, raceVars>>

SpecCalc == CalcAloneInit /\ [][CalcNext]_vars

RaidInit == StoreIdle /\ ClockZero /\ LevelZero /\ CalcZero /\ RaidZero /\ LifeZero /\ BoardZero /\ RunZero /\ RaceZero

RaidNext ==
    /\ \/ RaidEnable
       \/ RaidDisable
       \/ RaidConfig
       \/ OnMemberJoinRaid
       \/ RaidTick
    /\ UNCHANGED <<storeVars, verifyVars, levelVars, calcVars, lifeVars, boardVars, runVars,
                   raceVars>>

SpecRaid == RaidInit /\ [][RaidNext]_vars

(***************************************************************************)
(* Verification over the runs of the process: issuing, the attempts that   *)
(* finish without an await, the hourly save with its backup, and restarts. *)
(***************************************************************************)
LifeInit == VerifyInit

LifeHandlers ==
    \/ VerificationSetup
    \/ OnMemberJoin
    \/ VerifyNoPending
    \/ VerifyWrong

LifeNext ==
    \/ /\ LifeHandlers
       /\ Carry
       /\ UNCHANGED <<clockVars, levelVars, calcVars, raidVars, captcha_event, boardVars,
                      runVars, raceVars>>
    \/ AutoBackupConfigs
    \/ Restart

SpecLife == LifeInit /\ [][LifeNext]_vars

(***************************************************************************)
(* The leaderboard's ordering on its own.  A guild's records are a dict,   *)
(* which iterates in insertion order: a sequence of entries, the user of   *)
(* an entry being the rank of its insertion.                               *)
(***************************************************************************)
MaxBoardLen == 11
BoardGuilds == {1, 2}
BoardXps == {0, 15}

\* The records a guild can hold: guild 1 up to MaxBoardLen of them, guild 2 none or
\* one with more xp than any of guild 1.
BoardEntries(g, xs) == [i \in 1..Len(xs) |-> [g |-> g, user |-> i, xp |-> xs[i]]]
BoardLevels ==
    {[g \in BoardGuilds |-> IF g = 1 THEN BoardEntries(1, xs) ELSE other] :
        xs \in UNION {[1..n -> BoardXps] : n \in 0..MaxBoardLen},
        other \in {<<>>, BoardEntries(2, <<30>>)}}

\* A sort that puts an entry before the entries of equal xp already placed.
sorted_insert_unstable(s, e) ==
    LET k == Cardinality({i \in 1..Len(s) : s[i].xp > e.xp})
    IN SubSeq(s, 1, k) \o <<e>> \o SubSeq(s, k + 1, Len(s))

\* One step of `sorted(..., key=xp, reverse=True)`, lines 6273-6277: Python's sort is
\* stable and reverse=True keeps the original order of equal keys, so an entry goes
\* after every entry already placed whose xp is at least its own.
sorted_insert(s, e) ==
    LET k == Cardinality({i \in 1..Len(s) : s[i].xp >= e.xp})
    IN SubSeq(s, 1, k) \o <<e>> \o SubSeq(s, k + 1, Len(s))

RECURSIVE sorted_users(_)
sorted_users(items) ==
    IF items = <<>> THEN <<>>
    ELSE sorted_insert(sorted_users(SubSeq(items, 1, Len(items) - 1)), items[Len(items)])

\* `top_users = sorted_users[:10]`, line 6280.
top_users(items) ==
    LET s == sorted_users(items)
    IN SubSeq(s, 1, IF Len(s) < TOP_N THEN Len(s) ELSE TOP_N)

\* leaderboard_command, lines 6258-6280, on the records drawn: a guild without
\* records gets the "no grinders" message and no list (lines 6264-6271).
LeaderboardCall ==
    \E g \in BoardGuilds :
        /\ ~board_call.done
        /\ board_call' = [board_call EXCEPT !.done = TRUE, !.g = g,
                                            !.out = top_users(board_call.levels[g])]
        /\ UNCHANGED <<level_ignored, board_shown>>

BoardInit ==
    /\ StoreIdle /\ ClockZero /\ LevelZero /\ CalcZero /\ RaidZero /\ LifeZero /\ RunZero /\ RaceZero
    /\ level_ignored = 0
    /\ board_shown = NoBoard
    /\ \E l \in BoardLevels : board_call = [NoBoardCall EXCEPT !.levels = l]

BoardNext ==
    /\ LeaderboardCall
    /\ UNCHANGED <<storeVars, verifyVars, clockVars, levelVars, calcVars, raidVars, lifeVars,
                   runVars, raceVars>>

SpecBoard == BoardInit /\ [][BoardNext]_vars

(***************************************************************************)
(* Leveling over the runs of the process: reads, the leaderboard, the      *)
(* hourly save and restarts.                                               *)
(***************************************************************************)
LevelLifeInit == LevelInit

LevelLifeHandlers ==
    \/ ConfigLevel
    \/ OnMessage
    \/ LevelCommand

LevelLifeNext ==
    \/ /\ LevelLifeHandlers
       /\ UNCHANGED <<storeVars, verifyVars, calcVars, raidVars, lifeVars, boardVars, runVars,
                      raceVars>>
    \/ /\ LeaderboardCommand
       /\ UNCHANGED <<storeVars, verifyVars, calcVars, raidVars, lifeVars, runVars, raceVars>>
    \/ AutoBackupConfigs
    \/ Restart

SpecLevelLife == LevelLifeInit /\ [][LevelLifeNext]_vars

(***************************************************************************)
(* The handlers of /verify that are in flight at the role grant, with the  *)
(* bookkeeping of the grants: role_grants[u] counts the add_roles calls    *)
(* that returned since the last challenge was issued to u, or is Mixed     *)
(* when that challenge was issued while handlers of an earlier one were    *)
(* still in flight.                                                        *)
(***************************************************************************)
Mixed == 0 - 1

RaceInit == VerifyInit

RaceSetup ==
    /\ VerificationSetup
    /\ UNCHANGED raceVars

RaceJoin ==
    \E u \in VUsers, g \in VGuilds, code \in IssuedCodes :
        /\ OnMemberJoinOf(u, g, code)
        /\ role_grants' = [role_grants EXCEPT ![u] = IF verify_tasks[u] = 0 THEN 0 ELSE Mixed]
        /\ issued_in_flight' = [issued_in_flight EXCEPT ![u] = verify_tasks[u] > 0]

RaceMatch ==
    \E u \in VUsers, code \in SubmitCodes, env \in GrantEnvs, fault \in HandlerFaults :
        /\ VerifyMatchOf(u, code, env, fault)
        /\ issued_in_flight' = [issued_in_flight EXCEPT ![u] = FALSE]
        /\ UNCHANGED role_grants

RaceFinish ==
    \E u \in VUsers, fault \in HandlerFaults, grant \in GrantOutcomes :
        /\ VerifyFinishOf(u, fault, grant)
        /\ role_grants' = [role_grants EXCEPT ![u] =
               IF grant = "given" /\ @ # Mixed THEN @ + 1 ELSE @]
        /\ issued_in_flight' = [issued_in_flight EXCEPT ![u] = FALSE]

RaceNext ==
    /\ RaceSetup \/ RaceJoin \/ RaceMatch \/ RaceFinish
    /\ UNCHANGED <<clockVars, levelVars, calcVars, raidVars, lifeVars, boardVars, runVars>>

SpecRace == RaceInit /\ [][RaceNext]_vars

(***************************************************************************)
(* The life of a pending record: the joins that issue it, and the events   *)
(* that are not attempts, issues or clears: the clock, messages, the       *)
(* hourly backup, restarts.                                                *)
(***************************************************************************)
ExpiryInit == VerifyInit

\* The period of the backup loop, in seconds, and how many periods are followed.
BACKUP_PERIOD == 3600
MaxPeriods == 1

HourPasses ==
    /\ ticks < MaxPeriods
    /\ Tick({BACKUP_PERIOD})
    /\ UNCHANGED <<storeVars, verifyVars, levelVars, calcVars, raidVars, lifeVars, boardVars,
                   runVars, raceVars>>

ExpiryHandlers ==
    \/ VerificationSetup
    \/ OnMemberJoin

ExpiryNext ==
    \/ /\ ExpiryHandlers
       /\ Carry
       /\ UNCHANGED <<clockVars, levelVars, calcVars, raidVars, captcha_event, boardVars,
                      runVars, raceVars>>
    \/ HourPasses
    \/ /\ OnMessageIgnored
       /\ UNCHANGED <<storeVars, verifyVars, calcVars, raidVars, lifeVars, runVars, raceVars>>
    \/ AutoBackupConfigs
    \/ Restart

SpecExpiry == ExpiryInit /\ [][ExpiryNext]_vars

(***************************************************************************)
(* Startups that cannot read what is stored: handlers fill the maps, the   *)
(* hourly backup and the shutdown handler save them, and a new process     *)
(* meets read faults or truncated files when it loads.                     *)
(***************************************************************************)
BootInit == VerifyInit

BootHandlers ==
    \/ /\ VerificationSetup
       /\ UNCHANGED <<clockVars, levelVars>>
    \/ /\ LevelCommand
       /\ UNCHANGED <<storeVars, verifyVars>>

BootNext ==
    \/ /\ process.state = "running"
       /\ BootHandlers
       /\ UNCHANGED <<calcVars, raidVars, lifeVars, boardVars, runVars, raceVars>>
    \/ /\ process.state = "running"
       /\ AutoBackupConfigs
    \/ Signal
    \/ GracefulShutdownWith(NoShutdownFaults)
    \/ Startup

SpecBoot == BootInit /\ [][BootNext]_vars

(***************************************************************************)
(* The end of the process: handlers fill the maps and a termination signal *)
(* runs graceful_shutdown.  The second specification adds that the handler *)
(* of a delivered signal does run.                                         *)
(***************************************************************************)
HaltInit == VerifyInit

HaltHandlers ==
    \/ /\ VerificationSetup \/ OnMemberJoin
       /\ UNCHANGED <<clockVars, levelVars>>
    \/ /\ LevelCommand
       /\ UNCHANGED <<storeVars, verifyVars>>

HaltNext ==
    \/ /\ process.state = "running"
       /\ HaltHandlers
       /\ UNCHANGED <<calcVars, raidVars, lifeVars, boardVars, runVars, raceVars>>
    \/ Signal
    \/ GracefulShutdown

SpecHalt == HaltInit /\ [][HaltNext]_vars

SpecHaltFair == SpecHalt /\ WF_vars(GracefulShutdown)

(***************************************************************************)
(* The hourly backup: handlers fill the maps and auto_backup_configs runs. *)
(***************************************************************************)
BackupInit == VerifyInit

BackupHandlers ==
    \/ /\ VerificationSetup \/ OnMemberJoin
       /\ UNCHANGED <<clockVars, levelVars>>
    \/ /\ ConfigLevel \/ LevelCommand
       /\ UNCHANGED <<storeVars, verifyVars>>

BackupNext ==
    \/ /\ BackupHandlers
       /\ UNCHANGED <<calcVars, raidVars, lifeVars, boardVars, runVars, raceVars>>
    \/ AutoBackupConfigs

SpecBackup == BackupInit /\ [][BackupNext]_vars

(***************************************************************************)
(* The issuing of challenges on its own: joins and the /captcha command.   *)
(***************************************************************************)
IssueInit == VerifyInit

IssueHandlers ==
    \/ VerificationSetup
    \/ VerificationDisable
    \/ OnMemberJoin

IssueNext ==
    \/ /\ IssueHandlers
       /\ UNCHANGED <<clockVars, levelVars, calcVars, raidVars, lifeVars, boardVars, runVars,
                      raceVars>>
    \/ CaptchaSlash

SpecIssue == IssueInit /\ [][IssueNext]_vars

(***************************************************************************)
(* Claims about the store.                                                 *)
(***************************************************************************)
\* A load that ran right after a save of the same domain, with no storage fault
\* of its own.
LoadAfterSave ==
    store_op.op = "load" /\ store_op.after_save /\ store_op.fault = "none"

\* C1: round trip. A load_config(d) right after a successful save_config(d, p) of a
\* domain the components store returns a value equal to p: the same keys, of the
\* same type, with the same values.
C1_RoundTrip ==
    (LoadAfterSave /\ store_op.save_ret = "True" /\ store_op.d \in CONFIG_FILES)
        => store_op.out = store_op.saved

\* C8: the backend is chosen at import and never changes. The relational backend is
\* in use exactly when the connection string is non-blank and the probe succeeded,
\* USE_DATABASE implies that engine is set, and no save or load, failed or not,
\* changes either.
C8_BackendFixedAtBoot ==
    /\ [](USE_DATABASE => engine # "None")
    /\ [](USE_DATABASE <=> (DATABASE_URL = "url" /\ probe_ok))
    /\ [][USE_DATABASE' = USE_DATABASE /\ engine' = engine]_vars

\* C8 witness: the connection string was set and the probe failed; later a save
\* failed on the flat files and the store is still on flat files.
C8_Witness ==
    /\ DATABASE_URL = "url" /\ ~probe_ok /\ ~USE_DATABASE
    /\ store_op.op = "save" /\ store_op.fault = "write_error" /\ store_op.ret = "False"
    /\ store_op.d \in CONFIG_FILES /\ files[store_op.d].kind = "partial"

\* Whether the fault of the last call made its storage access fail (a read fault
\* needs a file to read: a missing file is found missing by os.path.exists).
LoadFailed ==
    \/ store_op.fault = "db_error"
    \/ store_op.fault = "read_error" /\ Stored(store_op.d).kind # "absent"
    \/ Stored(store_op.d).kind = "partial"
SaveFailed ==
    \/ store_op.fault \in {"db_error", "open_error", "write_error"}
         /\ (USE_DATABASE \/ store_op.d \in CONFIG_FILES)
    \/ ~USE_DATABASE /\ store_op.d \notin CONFIG_FILES

\* C9: load_config never raises: it returns the stored payload if there is one, {}
\* if there is none and {} on a storage error; save_config never raises and returns
\* False exactly when it failed.
C9_NeverRaises ==
    /\ store_op.op = "load" =>
          /\ ~store_op.raised
          /\ LoadFailed => store_op.out = EmptyDict
          /\ Stored(store_op.d).kind = "absent" => store_op.out = EmptyDict
          /\ (~LoadFailed /\ Stored(store_op.d).kind = "json")
                => store_op.out = Stored(store_op.d).doc
    /\ store_op.op = "save" =>
          /\ ~store_op.raised
          /\ store_op.ret = (IF SaveFailed THEN "False" ELSE "True")

\* C9 witness: a payload is stored, the load hit a storage error and returned {}.
C9_Witness ==
    /\ store_op.op = "load" /\ store_op.fault # "none"
    /\ Stored(store_op.d).kind = "json" /\ Stored(store_op.d).doc # EmptyDict
    /\ store_op.out = EmptyDict /\ ~store_op.raised

\* The payload load_config returns for a stored state when nothing fails.
PayloadOf(stored) == IF stored.kind = "json" THEN stored.doc ELSE EmptyDict

\* C10: a load that runs after a save began returns the complete previous payload
\* or the complete new one (as JSON documents), never an empty or partial one.
C10_SaveAtomicForLoad ==
    LoadAfterSave =>
        \/ json_dumps(store_op.out) = json_dumps(store_op.saved)
        \/ json_dumps(store_op.out) = PayloadOf(store_op.save_before)

\* C29: a failed save leaves the store as it was. A load_config(d) right after a
\* save_config(d, p) that returned False returns the payload that was stored for d
\* before that save, under the relational backend and under the flat files.
C29_FailedSaveKeepsPayload ==
    (LoadAfterSave /\ store_op.save_ret = "False")
        => store_op.out = PayloadOf(store_op.save_before)

\* C11: under the relational backend, whatever saves succeeded or failed, the
\* bot_config table holds at most one row per config_type, and right after a
\* successful save_config(d, p) it holds exactly one row for d, the JSON document of p.
C11_OneRowPerDomain ==
    (USE_DATABASE /\ engine # "None") =>
        /\ \A d \in StoreDomains : Len(bot_config[d]) <= 1
        /\ (store_op.op = "save" /\ store_op.ret = "True") =>
               bot_config[store_op.d] = <<json_dumps(store_op.p)>>

\* A successful save replaced the row an earlier save had left.
C11_Witness ==
    /\ USE_DATABASE /\ engine # "None"
    /\ store_op.op = "save" /\ store_op.ret = "True"
    /\ store_op.before.kind = "json"
    /\ store_op.before.doc # json_dumps(store_op.p)
    /\ Len(bot_config[store_op.d]) = 1

\* C12: under both backends a save_config(d, p) leaves what the store holds for every
\* other domain as it was, and a successful one leaves for d the JSON document of p
\* and nothing else: no key of the previous payload that p does not have.
C12_SaveReplacesOneDomain ==
    [][ (store_op'.op = "save" /\ store_op' # store_op) =>
            /\ \A d \in StoreDomains \ {store_op'.d} : Stored(d)' = Stored(d)
            /\ \A d \in StoreDomains :
                   (d = store_op'.d /\ store_op'.ret = "True") =>
                       /\ Stored(d)' = JsonFile(json_dumps(store_op'.p))
                       /\ DOMAIN (Stored(d)').doc \subseteq {str(k) : k \in DOMAIN store_op'.p}
      ]_vars

\* A successful save dropped a key of the previous payload of its domain while
\* another domain held a payload.
C12_Witness ==
    /\ store_op.op = "save" /\ store_op.ret = "True"
    /\ store_op.before.kind = "json"
    /\ DOMAIN store_op.before.doc \ DOMAIN Stored(store_op.d).doc # {}
    /\ \E d \in CONFIG_FILES \ {store_op.d} :
           Stored(d).kind = "json" /\ DOMAIN Stored(d).doc # {}

(***************************************************************************)
(* Claims about verification.                                              *)
(***************************************************************************)
\* C2: after a challenge is issued to a user, the first and the second attempt with
\* a wrong code are answered WRONG_CODE (the record stays, with that many attempts
\* used), the third is answered EXHAUSTED and deletes the record, and every further
\* attempt is answered NO_PENDING until a new challenge is issued.
C2_ThreeWrongAttempts ==
    \A u \in VUsers :
        LET h == verify_hist[u]
            k == IntKey(u)
        IN  h.valid =>
              /\ h.n = 0 => (k \in DOMAIN pending_verifications
                               /\ pending_verifications[k].attempts = 0)
              /\ h.n \in {1, 2} => (h.res = "WRONG_CODE"
                                       /\ k \in DOMAIN pending_verifications
                                       /\ pending_verifications[k].attempts = h.n)
              /\ h.n = 3 => (h.res = "EXHAUSTED" /\ k \notin DOMAIN pending_verifications)
              /\ h.n > 3 => (h.res = "NO_PENDING" /\ k \notin DOMAIN pending_verifications)

\* C2 witness: three wrong attempts were made after an issue and a fourth attempt
\* was answered NO_PENDING.
C2_Witness ==
    \E u \in VUsers :
        /\ verify_hist[u].valid /\ verify_hist[u].n = 4
        /\ verify_hist[u].res = "NO_PENDING"
        /\ verify_result[u].res = "NO_PENDING"

C16_PendingWrittenBack ==
    [][\A u \in VUsers :
          ( /\ verify_result'[u] # verify_result[u]
            /\ verify_result'[u].res \in {"WRONG_CODE", "EXHAUSTED", "VERIFIED"}
            /\ Stored("pending_verifications")'.kind = "json" )
          => Stored("pending_verifications")'.doc = json_dumps(pending_verifications')
      ]_vars

\* C23: whatever attempt handlers of a user interleave (a handler suspended at the
\* role grant included), every record in the pending map has attempts in 0..2 in
\* every state between handler steps, and no issued challenge has more than 3
\* wrong submissions evaluated against it: the third is answered EXHAUSTED and
\* removes the record.
C23_AttemptsBounded ==
    \A u \in VUsers :
        /\ IntKey(u) \in DOMAIN pending_verifications =>
               pending_verifications[IntKey(u)].attempts \in 0..2
        /\ (verify_hist[u].valid /\ verify_hist[u].res \in {"WRONG_CODE", "EXHAUSTED"}) =>
               verify_hist[u].n <= 3
        /\ (verify_hist[u].valid /\ verify_hist[u].n >= 3) =>
               IntKey(u) \notin DOMAIN pending_verifications

\* The third wrong submission was answered EXHAUSTED while a handler that had read
\* the same record with the right code was still suspended at the role grant.
C23_Witness ==
    \E u \in VUsers :
        /\ verify_hist[u].valid /\ verify_hist[u].n = 3 /\ verify_hist[u].res = "EXHAUSTED"
        /\ verify_result[u].res = "EXHAUSTED"
        /\ verify_tasks[u] > 0
        /\ IntKey(u) \notin DOMAIN pending_verifications

\* C25: every finished attempt is answered VERIFIED, WRONG_CODE, EXHAUSTED or
\* NO_PENDING, never with the generic error, whatever attempts, issues and leaves of
\* the user interleave.
C25_TypedOutcomeOnly ==
    \A u \in VUsers :
        verify_result[u].res \in {"none", "VERIFIED", "WRONG_CODE", "EXHAUSTED", "NO_PENDING"}

\* C24: for each issued challenge the verified role is granted at most once: at
\* most one add_roles call returns for it, however many /verify handlers with the
\* right code are in flight at the role grant.
C24_GrantAtMostOnce ==
    \A u \in VUsers : role_grants[u] <= 1

\* C27: a /verify that finishes after the role grant removes only the record it
\* matched: a record issued to the user while that handler was suspended, which no
\* /verify has matched since, is still pending, unchanged, after the handler finishes.
C27_FinishKeepsNewerRecord ==
    [][\A u \in VUsers :
          (issued_in_flight[u] /\ verify_tasks'[u] < verify_tasks[u]) =>
              /\ IntKey(u) \in DOMAIN pending_verifications'
              /\ pending_verifications'[IntKey(u)] = pending_verifications[IntKey(u)]
      ]_vars

(***************************************************************************)
(* Claims about verification over issuing, saving and restarts.            *)
(***************************************************************************)
\* C13: at most one pending verification exists per user at any time: the pending
\* map never holds two records of one user, so a challenge issued to a user who
\* has a record replaces it.
C13_OnePendingPerUser ==
    \A u \in VUsers : Cardinality(DOMAIN EntriesOf(pending_verifications, u)) <= 1

\* C14: a moderator's /captcha for a user leaves a pending record of that user with
\* attempts 0, the command's guild and the moderator as issued_by.
C14_CaptchaIssues ==
    [][captcha_event' # captcha_event =>
          LET e == captcha_event'
              k == IntKey(e.u)
          IN  /\ k \in DOMAIN pending_verifications'
              /\ pending_verifications'[k].attempts = 0
              /\ pending_verifications'[k].guild_id = e.g
              /\ pending_verifications'[k].issued_by = e.moderator
      ]_vars

\* C17: a user who had a pending record when the process shut down gracefully, and
\* about whom nothing has happened since the restart, is not answered NO_PENDING.
C17_PendingSurvivesRestart ==
    [][\A u \in VUsers :
          (carried[u] /\ verify_result'[u] # verify_result[u])
          => verify_result'[u].res # "NO_PENDING"
      ]_vars

\* C26: a pending record has no expiry. The passage of time, a message, the hourly
\* backup and a restart of the process with its reload from the store leave every
\* record the handlers stored in the pending map of the process, with the code it
\* was issued with.
C26_NoExpiry ==
    [][ (HourPasses \/ OnMessageIgnored \/ AutoBackupConfigs \/ Restart) =>
          \A u \in VUsers :
              IntKey(u) \in DOMAIN pending_verifications =>
                  \E k \in DOMAIN EntriesOf(pending_verifications', u) :
                      pending_verifications'[k].captcha_code =
                          pending_verifications[IntKey(u)].captcha_code
      ]_vars

(***************************************************************************)
(* Claims about leveling.                                                  *)
(***************************************************************************)
LevelPairs == LGuilds \X LUsers

\* C4: leveling cooldown. For every (guild, user) pair, an activity event that arrives
\* less than 60 seconds after the pair's last xp gain is suppressed: xp, messages,
\* level and last_xp_gain stay as they were and no level-up is reported. An event that
\* arrives 60 seconds or more after the last gain adds its gain (15..25) once, counts
\* one message and sets last_xp_gain to the time of the event. No step other than an
\* activity event changes a record, handlers suspended at the level-up send included,
\* and an event changes the record of its own pair only.
C4_Cooldown ==
    [][ /\ level_event'.seq # level_event.seq =>
             LET e == level_event'
                 before == RecordOf(user_levels, e.g, e.u)
                 after == RecordOf(user_levels', e.g, e.u)
                 since == now - gained_at[<<e.g, e.u>>]
             IN  /\ IF since < 60
                    THEN e.res = "suppressed" /\ after = before /\ ~e.level_up
                    ELSE /\ e.res = "gained"
                         /\ e.gain \in 15..25
                         /\ after.xp = before.xp + e.gain
                         /\ after.messages = before.messages + 1
                         /\ after.last_xp_gain = now
                 /\ \A p \in LevelPairs \ {<<e.g, e.u>>} :
                        RecordOf(user_levels', p[1], p[2]) = RecordOf(user_levels, p[1], p[2])
        /\ level_event'.seq = level_event.seq =>
             \A p \in LevelPairs :
                 RecordOf(user_levels', p[1], p[2]) = RecordOf(user_levels, p[1], p[2])
      ]_vars

\* An event of a pair that gained before was suppressed while the handler of an
\* earlier event, one that leveled up, is still suspended at its send.
C4_Witness ==
    /\ level_event.res = "suppressed"
    /\ level_sends > 0
    /\ RecordOf(user_levels, level_event.g, level_event.u).messages >= 2

\* C5: for every (guild, user) record, xp is never negative and level is at least 1 in
\* every state, and from one state to the next neither xp nor level decreases.
C5_LevelMonotone ==
    /\ [](\A p \in LevelPairs :
             LET r == RecordOf(user_levels, p[1], p[2])
             IN  r.xp >= 0 /\ r.level >= 1)
    /\ [][\A p \in LevelPairs :
             LET r == RecordOf(user_levels, p[1], p[2])
                 s == RecordOf(user_levels', p[1], p[2])
             IN  s.xp >= r.xp /\ s.level >= r.level]_vars

\* A record whose level has grown.
C5_Witness ==
    \E p \in LevelPairs :
        LET r == RecordOf(user_levels, p[1], p[2])
        IN  r.level >= 2 /\ r.xp >= 100 /\ r.messages >= 4

\* C6: level formula. For every xp in 0..MaxCalcXp, calculate_level(xp) is the one
\* level L >= 1 with xp_for_level(L) <= xp < xp_for_level(L + 1), where
\* xp_for_level(L) = (L - 1)^2 * 100; xp = 0 gives 1, xp = 100 gives 2, xp = 400 gives 3.
C6_LevelFormula ==
    calc_call.done =>
        LET xp == calc_call.xp
            L == calc_call.level
            Holds(M) == (M - 1) * (M - 1) * 100 <= xp /\ xp < M * M * 100
        IN  /\ L >= 1
            /\ xp_for_level(L) = (L - 1) * (L - 1) * 100
            /\ xp_for_level(L) <= xp /\ xp < xp_for_level(L + 1)
            /\ \A M \in 1..(xp + 1) : Holds(M) <=> M = L
            /\ xp = 0 => L = 1
            /\ xp = 100 => L = 2
            /\ xp = 400 => L = 3

\* calculate_level was applied to 400.
C6_Witness == calc_call.done /\ calc_call.xp = 400 /\ calc_call.level = 3

InLevelFile(g, u) ==
    /\ level_files.user_levels.kind = "json"
    /\ StrKey(g) \in DOMAIN level_files.user_levels.doc
    /\ StrKey(u) \in DOMAIN level_files.user_levels.doc[StrKey(g)]

\* C19: a (guild, user) pair that never had an activity event that gained xp has no
\* record in user_levels.json and is not listed by the leaderboard, whatever reads of
\* its level, hourly saves, shutdowns and restarts have happened.
C19_ReadDoesNotPersist ==
    \A p \in LevelPairs :
        gained_at[p] = 0 =>
            /\ ~InLevelFile(p[1], p[2])
            /\ ~(board_shown.g = p[1] /\ StrKey(p[2]) \in board_shown.shown)

\* The place of an entry of the list among the requested guild's records.
BoardAsked == board_call.levels[board_call.g]
BoardListed == {board_call.out[i].user : i \in 1..Len(board_call.out)}

\* C20: the leaderboard of a guild lists at most 10 entries, all of them records of
\* that guild, each once, as many as the guild has up to 10; xp never increases down
\* the list, entries of equal xp stand in the order of their insertion, and no record
\* left out would stand before a listed one.
C20_TopTenStableDescending ==
    board_call.done =>
        LET out == board_call.out
            n == Len(BoardAsked)
        IN /\ Len(out) <= 10
           /\ Len(out) = (IF n < 10 THEN n ELSE 10)
           /\ \A i \in 1..Len(out) :
                  /\ out[i].g = board_call.g
                  /\ out[i].user \in 1..n
                  /\ BoardAsked[out[i].user] = out[i]
           /\ \A i, j \in 1..Len(out) :
                  i < j =>
                      /\ out[i].user # out[j].user
                      /\ out[i].xp >= out[j].xp
                      /\ (out[i].xp = out[j].xp => out[i].user < out[j].user)
           /\ \A k \in 1..n :
                  k \notin BoardListed =>
                      \A i \in 1..Len(out) :
                          /\ out[i].xp >= BoardAsked[k].xp
                          /\ (out[i].xp = BoardAsked[k].xp => out[i].user < k)

\* The leaderboard was asked for a guild with more than 10 records while the other
\* guild holds a record of higher xp; the list holds two entries of equal xp, an
\* entry that was inserted after one it stands before, and a record was left out
\* that was inserted before a listed one.
C20_Witness ==
    /\ board_call.done
    /\ board_call.g = 1
    /\ Len(BoardAsked) > 10
    /\ board_call.levels[2] # <<>>
    /\ \E i, j \in 1..Len(board_call.out) :
           i < j /\ board_call.out[i].xp = board_call.out[j].xp
    /\ \E i, j \in 1..Len(board_call.out) :
           i < j /\ board_call.out[i].user > board_call.out[j].user
    /\ \E k \in 1..Len(BoardAsked) :
           k \notin BoardListed /\ \E u \in BoardListed : k < u

(***************************************************************************)
(* Claims about shutdown and backups.                                      *)
(***************************************************************************)
\* The maps in memory and the files of the leveling data, by the names of the backup.
MemoryDoc(n) ==
    IF n = "verification" THEN json_dumps(verification_config)
    ELSE IF n = "pending_verifications" THEN json_dumps(pending_verifications)
    ELSE IF n = "user_levels" THEN json_dump_nested(user_levels)
    ELSE json_dumps(guild_level_config)
DurableFile(n) == IF n \in CONFIG_FILES THEN Stored(n) ELSE level_files[n]

\* C21: a termination signal is followed by the exit of the process, whatever saves
\* or backup fail; the process exits only from the signal handler; and at the exit
\* every config domain and both leveling files hold the document of the map in
\* memory unless their save failed (then the old content or a truncated file), and
\* a backup made by the handler holds copies of the files as the saves left them.
C21_ShutdownSavesThenExits ==
    /\ (process.state = "signalled") ~> (process.state = "exited")
    /\ [][ (process'.state = "exited" /\ process.state # "exited") =>
             /\ process.state = "signalled"
             /\ \A n \in BackupNames :
                    DurableFile(n)' \in {JsonFile(MemoryDoc(n)), DurableFile(n), Partial}
             /\ backups' # backups =>
                    \A n \in BackupNames :
                        LET src == backup_sources(files', level_files')[n]
                        IN  src.kind # "absent" =>
                                (n \in DOMAIN backups'[now] /\ backups'[now][n] = src)
         ]_vars

\* The process has exited although a config save and the leveling save left
\* truncated files and the backup failed; and it has exited with everything saved
\* and archived.
C21_Witness ==
    /\ process.state = "exited"
    /\ \/ /\ files["verification"] = Partial
          /\ level_files.user_levels = Partial
          /\ verification_config # EmptyDict
          /\ backups = EmptyDict
       \/ /\ pending_verifications # EmptyDict
          /\ user_levels # EmptyDict
          /\ \A n \in BackupNames : DurableFile(n) = JsonFile(MemoryDoc(n))
          /\ now \in DOMAIN backups
          /\ \A n \in BackupNames : backups[now][n] = DurableFile(n)

\* C22: an hourly backup run leaves, for every config domain and both leveling
\* files, the document of the map in memory in the store, and an archive under the
\* run's timestamp that holds a copy of every one of them equal to what the store
\* holds, under the flat-file backend and under the relational backend.
C22_BackupHoldsEveryDomain ==
    [][ AutoBackupConfigs =>
          \A n \in BackupNames :
              /\ DurableFile(n)'.kind = "json" => DurableFile(n)' = JsonFile(MemoryDoc(n))
              /\ now \in DOMAIN backups'
              /\ n \in DOMAIN backups'[now]
              /\ backups'[now][n] = DurableFile(n)'
      ]_vars

(***************************************************************************)
(* Claims about raid protection.                                           *)
(***************************************************************************)
\* C7: raid detection. With raid protection enabled for a guild with threshold 10,
\* once a join is the 10th of the last 30 seconds it is classified as a raid and the
\* guild's locked_down is set.
C7_RaidDetected ==
    \A g \in RGuilds :
        LET k == StrKey(g)
            recent == InWindow(join_log[g], now)
        IN  ( /\ k \in DOMAIN raid_protection_config
              /\ raid_protection_config[k].enabled
              /\ raid_protection_config[k].threshold = 10
              /\ Len(recent) >= 10 )
            => raid_protection_config[k].locked_down

FlatStored(n) == n \notin CONFIG_FILES \/ ~(USE_DATABASE /\ engine # "None")

====
